---------------------------- MODULE Spec2Model ----------------------------
(* A model of time_cli (src/src/main.rs): the language-code validator,    *)
(* the time-statistics calculator and the two clock outputs of main, the  *)
(* "history" pipeline (date resolution, validation, fetch, rendering) and *)
(* the memoised fetch.                                                    *)
EXTENDS Integers, Sequences, FiniteSets, TLC

VARIABLES
    lang_input,   \* parse_lang_code: the argument s, a sequence of code points
    lang_result,  \* parse_lang_code: its Result, or None before the call
    now,          \* compute_time_statistics: the instant passed in
    stats,        \* compute_time_statistics: the TimeStats returned, or None
    args,         \* HistoryArgs as clap parsed them
    today,        \* Local::now() of the history invocation
    env_base,     \* TEST_WIKIPEDIA_API_URL, or None when unset
    term_cols,    \* termwidth()
    upstream,     \* what the network answers to the request
    pc,           \* where the process is: the step it takes next
    month,        \* show_on_this_day: the resolved month (None before)
    day,          \* show_on_this_day: the resolved day (None before)
    spinner,      \* the progress spinner: off, ticking with a message, cleared
    cache,        \* the memo of fetch_wikipedia_data: key -> (stamp, value)
    clock,        \* the monotonic clock (Instant), in seconds
    request,      \* the call of fetch_wikipedia_data that awaits its answer
    net_log,      \* the URLs requested so far, in order
    fetch_calls,  \* the calls of fetch_wikipedia_data so far
    response,     \* show_on_this_day: the OnThisDayResponse (None before)
    stdout,       \* what was printed to the standard output, in order
    stderr,       \* the error main returned, as printed
    last,         \* per key, the latest finished call of fetch_wikipedia_data
    ret           \* the latest finished call, with the one before it for its key

langVars == <<lang_input, lang_result>>
statVars == <<now, stats>>
histVars == <<args, today, env_base, term_cols, upstream, pc, month, day,
              spinner, cache, clock, request, net_log, fetch_calls,
              response, stdout, stderr>>
callVars == <<last, ret>>
vars == <<lang_input, lang_result, now, stats, args, today, env_base,
          term_cols, upstream, pc, month, day, spinner, cache, clock,
          request, net_log, fetch_calls, response, stdout, stderr, last,
          ret>>

None == "none"

(* ---------------------------------------------------------------------- *)
(*                       chrono's calendar (NaiveDate)                    *)
(* ---------------------------------------------------------------------- *)

\* The proleptic Gregorian calendar repeats every 400 years; chrono looks the
\* year's flags up by year mod 400.
YearHasFeb29(year) ==
    LET y == year % 400
    IN  (y % 4 = 0) /\ ((y % 100 # 0) \/ (y = 0))

DaysInMonth(year, m) ==
    CASE m \in {1, 3, 5, 7, 8, 10, 12} -> 31
      [] m \in {4, 6, 9, 11}           -> 30
      [] m = 2 -> IF YearHasFeb29(year) THEN 29 ELSE 28

\* NaiveDate::from_ymd_opt(year, month, day).is_some()
from_ymd_opt(year, m, d) ==
    /\ m \in 1..12
    /\ d >= 1
    /\ d <= DaysInMonth(year, m)

RECURSIVE DaysBeforeMonth(_, _)
DaysBeforeMonth(year, m) ==
    IF m <= 1 THEN 0
    ELSE DaysBeforeMonth(year, m - 1) + DaysInMonth(year, m - 1)

\* Datelike::ordinal: the day of the year, starting from 1
ordinal(date) == DaysBeforeMonth(date.year, date.month) + date.day

\* Days from 0001-01-01 (a Monday) to January 1 of the year.
DaysBeforeYear(year) ==
    LET p == year - 1
    IN  365 * p + (p \div 4) - (p \div 100) + (p \div 400)

\* Monday = 1 .. Sunday = 7
Weekday(year, ord) == ((DaysBeforeYear(year) + ord - 1) % 7) + 1

WeeksInYear(year) ==
    LET jan1 == Weekday(year, 1)
    IN  IF jan1 = 4 \/ (jan1 = 3 /\ YearHasFeb29(year)) THEN 53 ELSE 52

\* Datelike::iso_week().week()
iso_week(date) ==
    LET ord == ordinal(date)
        w   == (ord - Weekday(date.year, ord) + 10) \div 7
    IN  IF w < 1 THEN WeeksInYear(date.year - 1)
        ELSE IF w > WeeksInYear(date.year) THEN 1
        ELSE w

(* ---------------------------------------------------------------------- *)
(*                            parse_lang_code                             *)
(* ---------------------------------------------------------------------- *)

\* Bound: the longest argument tried, in characters.
MaxLangLen == 3

\* Code points tried: @ A E N Z [ ` a d e z {  1 -  e-acute  euro-sign
LangAlphabet ==
    {64, 65, 69, 78, 90, 91, 96, 97, 100, 101, 122, 123, 49, 45, 233, 8364}

RECURSIVE StringsUpTo(_, _)
StringsUpTo(alphabet, n) ==
    IF n = 0 THEN {<<>>}
    ELSE LET shorter == StringsUpTo(alphabet, n - 1)
         IN  shorter \cup {Append(s, c) : s \in shorter, c \in alphabet}

\* The number of bytes of a char in UTF-8
Utf8Len(c) ==
    IF c < 128 THEN 1 ELSE IF c < 2048 THEN 2 ELSE IF c < 65536 THEN 3 ELSE 4

RECURSIVE ByteLen(_)
\* str::len: the length in bytes
ByteLen(s) == IF s = <<>> THEN 0 ELSE Utf8Len(Head(s)) + ByteLen(Tail(s))

is_ascii_uppercase(c) == c >= 65 /\ c <= 90
is_ascii_lowercase(c) == c >= 97 /\ c <= 122
is_ascii_alphabetic(c) == is_ascii_uppercase(c) \/ is_ascii_lowercase(c)

to_ascii_lowercase(s) ==
    [i \in 1..Len(s) |-> IF is_ascii_uppercase(s[i]) THEN s[i] + 32 ELSE s[i]]

LangErrorMessage(s) ==
    <<"'", s, "' is not a valid ISO-639-1 language code (two ASCII letters)">>

\* parse_lang_code without the case fold
parse_lang_code_unfolded(s) ==
    IF ByteLen(s) = 2 /\ \A i \in 1..Len(s) : is_ascii_alphabetic(s[i])
    THEN [ok |-> TRUE, value |-> s]
    ELSE [ok |-> FALSE, value |-> LangErrorMessage(s)]

parse_lang_code(s) ==
    IF ByteLen(s) = 2 /\ \A i \in 1..Len(s) : is_ascii_alphabetic(s[i])
    THEN [ok |-> TRUE, value |-> to_ascii_lowercase(s)]
    ELSE [ok |-> FALSE, value |-> LangErrorMessage(s)]

(* ---------------------------------------------------------------------- *)
(*                        compute_time_statistics                         *)
(* ---------------------------------------------------------------------- *)

\* Bound: the instants tried have a year from 1970 to 2000 + YearSpan.
YearSpan == 100

seconds_in_day == 86400

\* An f64 percentage (numerator / denominator) * 100.0, kept exact as the
\* fraction num/den.
Percent(numerator, denominator) ==
    [num |-> numerator * 100, den |-> denominator]

\* Days from 0001-01-01 to 1970-01-01, the epoch of the Unix timestamp
epoch_days == 719162

\* DateTime<Local>::timestamp: the seconds from the epoch to the instant, whose
\* local reading is t at t.offset seconds east of UTC. An i64; it is kept as
\* high * 100000 + low with low in 0..99999, each part within a 32-bit integer.
timestamp(t) ==
    LET days     == DaysBeforeYear(t.year) + ordinal(t) - 1 - epoch_days
        seconds  == t.hour * 3600 + t.minute * 60 + t.second - t.offset
        hundreds == days * 864
        units    == (hundreds % 1000) * 100 + seconds
    IN  [ high |-> (hundreds \div 1000) + (units \div 100000),
          low  |-> units % 100000 ]

\* compute_time_statistics counting only the days already over
compute_time_statistics_elapsed(t) ==
    LET year               == t.year
        is_leap            == from_ymd_opt(year, 2, 29)
        seconds_into_day   == t.hour * 3600 + t.minute * 60 + t.second
        day_of_year        == ordinal(t)
        total_days_in_year == IF is_leap THEN 366 ELSE 365
    IN  [ day_of_year        |-> day_of_year,
          total_days_in_year |-> total_days_in_year,
          day_progress       |-> Percent(seconds_into_day, seconds_in_day),
          year_progress      |-> Percent(day_of_year - 1, total_days_in_year),
          week_of_year       |-> iso_week(t),
          is_leap            |-> is_leap,
          unix_timestamp     |-> timestamp(t) ]

\* compute_time_statistics with every fourth year a leap year
compute_time_statistics_julian(t) ==
    LET year               == t.year
        is_leap            == year % 4 = 0
        seconds_into_day   == t.hour * 3600 + t.minute * 60 + t.second
        day_of_year        == ordinal(t)
        total_days_in_year == IF is_leap THEN 366 ELSE 365
    IN  [ day_of_year        |-> day_of_year,
          total_days_in_year |-> total_days_in_year,
          day_progress       |-> Percent(seconds_into_day, seconds_in_day),
          year_progress      |-> Percent(day_of_year, total_days_in_year),
          week_of_year       |-> iso_week(t),
          is_leap            |-> is_leap,
          unix_timestamp     |-> timestamp(t) ]

compute_time_statistics(t) ==
    LET year               == t.year
        is_leap            == from_ymd_opt(year, 2, 29)
        seconds_into_day   == t.hour * 3600 + t.minute * 60 + t.second
        day_of_year        == ordinal(t)
        total_days_in_year == IF is_leap THEN 366 ELSE 365
    IN  [ day_of_year        |-> day_of_year,
          total_days_in_year |-> total_days_in_year,
          day_progress       |-> Percent(seconds_into_day, seconds_in_day),
          year_progress      |-> Percent(day_of_year, total_days_in_year),
          week_of_year       |-> iso_week(t),
          is_leap            |-> is_leap,
          unix_timestamp     |-> timestamp(t) ]


(* ---------------------------------------------------------------------- *)
(*                    the memo of fetch_wikipedia_data                    *)
(* ---------------------------------------------------------------------- *)

\* #[cached(time = 86400)]: the lifespan of an entry, in seconds
cache_seconds == 86400

\* The timeout of the HTTP client, in seconds
client_timeout == 10

\* The key of a call: its arguments
CacheKey(lang, event_type, m, d) == <<lang, event_type, m, d>>

\* TimedCache::cache_get finds an entry whose age is below the lifespan
CacheLive(c, key, t) ==
    /\ key \in DOMAIN c
    /\ t - c[key].stamp < cache_seconds

\* TimedCache::cache_get removes the entry it finds expired
CacheAfterGet(c, key, t) ==
    IF key \in DOMAIN c /\ ~CacheLive(c, key, t)
    THEN [k \in DOMAIN c \ {key} |-> c[k]]
    ELSE c

\* TimedCache::cache_set stamps the value with the current instant
CacheSet(c, key, value, t) ==
    [k \in DOMAIN c \cup {key} |->
        IF k = key THEN [stamp |-> t, value |-> value] ELSE c[k]]

\* #[cached(result = true)] stores the value of an Ok, and nothing of an Err
CacheAfterCall(c, key, result, t) ==
    IF result.ok THEN CacheSet(c, key, result.value, t) ELSE c

(* ---------------------------------------------------------------------- *)
(*                      the request and its answer                        *)
(* ---------------------------------------------------------------------- *)

Fields == {"events", "births", "deaths", "holidays"}

Malformed == [malformed |-> TRUE]

\* The digits of n, most significant first ({n} in format!)
RECURSIVE Decimal(_)
Decimal(n) == IF n < 10 THEN <<n>> ELSE Append(Decimal(n \div 10), n % 10)

\* {n:02} in format!
Pad2(n) == IF n < 10 THEN <<0, n>> ELSE Decimal(n)

BaseUrl(env, lang) ==
    IF env = None THEN <<"https://", lang, ".wikipedia.org">> ELSE <<env>>

RequestUrl(env, lang, event_type, m, d) ==
    <<BaseUrl(env, lang), "/api/rest_v1/feed/onthisday/", event_type, "/",
      Decimal(m), "/", Decimal(d)>>

\* serde: a field the body lacks decodes as the empty sequence
Decode(body) ==
    [f \in Fields |-> IF f \in DOMAIN body.json THEN body.json[f] ELSE <<>>]

\* Response::error_for_status: an error for a 4xx or 5xx status
IsErrorStatus(status) == status >= 400 /\ status <= 599

\* send().await?.error_for_status()? of fetch_wikipedia_data, the first
\* await: the request fails, or the status arrives and is checked
SendResult(answer) ==
    IF ~answer.sent
    THEN [ok |-> FALSE, value |-> [stage |-> "send", status |-> 0]]
    ELSE IF IsErrorStatus(answer.status)
    THEN [ok |-> FALSE, value |-> [stage |-> "status", status |-> answer.status]]
    ELSE [ok |-> TRUE, value |-> answer.status]

\* json().await of fetch_wikipedia_data, the second await: the body arrives
\* and is decoded; a body that does not arrive, or does not decode, is an
\* error
JsonResult(answer) ==
    IF answer.body.malformed
    THEN [ok |-> FALSE, value |-> [stage |-> "decode", status |-> answer.status]]
    ELSE [ok |-> TRUE, value |-> Decode(answer.body)]

(* ---------------------------------------------------------------------- *)
(*                           show_on_this_day                             *)
(* ---------------------------------------------------------------------- *)

NoOverride == [some |-> FALSE, v |-> 0]
Some(x) == [some |-> TRUE, v |-> x]

\* Option::unwrap_or
unwrap_or(opt, default) == IF opt.some THEN opt.v ELSE default

\* The leap year the month/day pair is validated and displayed in
reference_year == 2024

\* EventType, #[value(rename_all = "lower")]
EventTypes == {"Events", "Births", "Deaths", "Holidays"}

EventTypeName(t) ==
    CASE t = "Events"   -> "events"
      [] t = "Births"   -> "births"
      [] t = "Deaths"   -> "deaths"
      [] t = "Holidays" -> "holidays"

\* The day override used only when the month is overridden too
ResolvedDayBoth(a, t) == IF a.month.some /\ a.day.some THEN a.day.v ELSE t.day

\* The month/day pair of the invocation: each override, or today's field
ResolvedMonth(a, t) == unwrap_or(a.month, t.month)
ResolvedDay(a, t) == unwrap_or(a.day, t.day)

\* The pair checked against the ranges of the arguments only
ValidDateAnyDay(m, d) == m \in 1..12 /\ d \in 1..31

\* The pair validated in the current year
ValidDateThisYear(m, d) == from_ymd_opt(today.year, m, d)

ValidDate(m, d) == from_ymd_opt(reference_year, m, d)

InvalidDateMessage(m, d) ==
    <<"'", Pad2(m), "-", Pad2(d), "' is not a valid calendar date">>

SpinnerOff == [state |-> "off", message |-> <<>>]

SpinnerFor(a, m, d) ==
    IF a.quiet THEN SpinnerOff
    ELSE [state |-> "ticking",
          message |-> <<"Fetching ", EventTypeName(a.type), " for ", Pad2(m),
                        "-", Pad2(d), " (", a.language, ")">>]

\* ProgressBar::finish_and_clear, and the drop of a ProgressBar still ticking
SpinnerCleared(sp) ==
    IF sp.state = "ticking" THEN [sp EXCEPT !.state = "cleared"] ELSE sp

(* textwrap::fill with the Options a bare width gives and the default      *)
(* features of the crate: words found at the Unicode break opportunities,  *)
(* split after hyphens, broken when longer than the width, and wrapped by  *)
(* the optimal-fit algorithm. A text is the sequence of its code points,   *)
(* taken to be printable ASCII and line feeds (one byte and one column     *)
(* each): 32 is the space, 45 the hyphen, 10 the line feed.                *)

\* str::trim_end_matches(' ')
RECURSIVE trim_end(_)
trim_end(s) ==
    IF s # <<>> /\ s[Len(s)] = 32 THEN trim_end(SubSeq(s, 1, Len(s) - 1))
    ELSE s

\* str::split('\n')
RECURSIVE split_lines(_)
split_lines(s) ==
    LET feeds == {i \in 1..Len(s) : s[i] = 10}
    IN  IF feeds = {} THEN <<s>>
        ELSE LET i == CHOOSE k \in feeds : \A j \in feeds : k <= j
             IN  <<SubSeq(s, 1, i - 1)>>
                    \o split_lines(SubSeq(s, i + 1, Len(s)))

\* Word::from: the word, the spaces that follow it, and its penalty
Word(s) ==
    LET trimmed == trim_end(s)
    IN  [ word       |-> trimmed,
          whitespace |-> SubSeq(s, Len(trimmed) + 1, Len(s)),
          penalty    |-> <<>> ]

\* The line-break class of a printable ASCII character (UAX #14)
LineBreakClass(c) ==
    CASE c = 32                  -> "SP"
      [] c \in {33, 63}          -> "EX"
      [] c \in {34, 39}          -> "QU"
      [] c \in {36, 43, 92}      -> "PR"
      [] c = 37                  -> "PO"
      [] c \in {40, 91, 123}     -> "OP"
      [] c \in {41, 93}          -> "CP"
      [] c \in {44, 46, 58, 59}  -> "IS"
      [] c = 45                  -> "HY"
      [] c = 47                  -> "SY"
      [] c \in 48..57            -> "NU"
      [] c = 124                 -> "BA"
      [] c = 125                 -> "CL"
      [] OTHER                   -> "AL"

\* The pairs of classes UAX #14 keeps together when nothing stands between
\* them: rules LB23, LB24, LB25, LB28, LB29 and LB30
NoBreakPairs ==
    ({"AL", "NU"} \X {"AL", "NU"})
       \cup ({"PR", "PO"} \X {"AL"}) \cup ({"AL"} \X {"PR", "PO"})
       \cup ({"CL", "CP", "NU"} \X {"PO", "PR"})
       \cup ({"PO", "PR"} \X {"OP", "NU"})
       \cup ({"HY", "IS", "SY"} \X {"NU"})
       \cup {<<"IS", "AL">>}
       \cup ({"AL", "NU"} \X {"OP"}) \cup ({"CP"} \X {"AL", "NU"})

\* The last character up to position i that is no space (0: none)
RECURSIVE LastNonSpace(_, _)
LastNonSpace(line, i) ==
    IF i = 0 \/ line[i] # 32 THEN i ELSE LastNonSpace(line, i - 1)

\* unicode_linebreak::linebreaks: a break opportunity after position i,
\* inside the line (rules LB7, LB13, LB14, LB15, LB18, LB19, LB21, then the
\* pairs, then LB31)
BreakAfter(line, i) ==
    LET a      == LineBreakClass(line[i])
        b      == LineBreakClass(line[i + 1])
        k      == LastNonSpace(line, i)
        before == IF k = 0 THEN "sot" ELSE LineBreakClass(line[k])
    IN  /\ b \notin {"SP", "CL", "CP", "EX", "IS", "SY"}
        /\ before # "OP"
        /\ ~(before = "QU" /\ b = "OP")
        /\ \/ a = "SP"
           \/ /\ a # "QU"
              /\ b \notin {"QU", "BA", "HY"}
              /\ <<a, b>> \notin NoBreakPairs

\* The words the line is cut into after the positions in cuts
RECURSIVE CutWords(_, _, _)
CutWords(line, cuts, start) ==
    LET later == {i \in cuts : i > start}
    IN  IF later = {}
        THEN (IF start < Len(line)
              THEN <<Word(SubSeq(line, start + 1, Len(line)))>> ELSE <<>>)
        ELSE LET i == CHOOSE k \in later : \A j \in later : k <= j
             IN  <<Word(SubSeq(line, start + 1, i))>>
                    \o CutWords(line, cuts, i)

\* WordSeparator::find_words, which is UnicodeBreakProperties: the break
\* opportunities with the end of the line as the last one; those that
\* follow a hyphen are removed, then the last one left is removed, and the
\* line is cut at the others
find_words(line) ==
    LET inner  == {i \in 1..(Len(line) - 1) :
                      BreakAfter(line, i) /\ line[i] # 45}
        kept   == IF line # <<>> /\ line[Len(line)] # 45
                  THEN inner \cup {Len(line)} ELSE inner
        cuts   == {i \in kept : \E j \in kept : j > i}
    IN  CutWords(line, cuts, 0)

\* char::is_alphanumeric, of an ASCII character
is_alphanumeric(c) ==
    (c >= 48 /\ c <= 57) \/ (c >= 65 /\ c <= 90) \/ (c >= 97 /\ c <= 122)

\* WordSplitter::HyphenSplitter: the split points of a word, one after each
\* hyphen that stands between two alphanumeric characters
split_points(w) ==
    {i \in 2..(Len(w) - 1) :
        w[i] = 45 /\ is_alphanumeric(w[i - 1]) /\ is_alphanumeric(w[i + 1])}

\* split_words, of one word: the pieces before the split points carry no
\* whitespace and, ending in the hyphen, no penalty; the last piece carries
\* the whitespace and the penalty of the word
RECURSIVE split_word(_, _)
split_word(w, prev) ==
    LET points == {i \in split_points(w.word) : i > prev}
    IN  IF points = {}
        THEN <<[w EXCEPT !.word = SubSeq(w.word, prev + 1, Len(w.word))]>>
        ELSE LET i == CHOOSE k \in points : \A j \in points : k <= j
             IN  <<[word       |-> SubSeq(w.word, prev + 1, i),
                    whitespace |-> <<>>,
                    penalty    |-> <<>>]>> \o split_word(w, i)

\* Word::break_apart: no piece of an empty word; otherwise pieces of at
\* most line_width columns, the last one
\* carrying the whitespace and the penalty of the word
RECURSIVE break_apart(_, _)
break_apart(w, line_width) ==
    LET size == IF line_width > 1 THEN line_width ELSE 1
    IN  IF w.word = <<>> THEN <<>>
        ELSE IF Len(w.word) <= size THEN <<w>>
        ELSE <<[word       |-> SubSeq(w.word, 1, size),
                whitespace |-> <<>>,
                penalty    |-> <<>>]>>
                \o break_apart([w EXCEPT !.word =
                                   SubSeq(w.word, size + 1, Len(w.word))],
                               line_width)

\* split_words: every word split at its split points
RECURSIVE split_words(_)
split_words(words) ==
    IF words = <<>> THEN <<>>
    ELSE split_word(Head(words), 0) \o split_words(Tail(words))

\* break_words: the words wider than the line broken apart
RECURSIVE break_words(_, _)
break_words(words, line_width) ==
    IF words = <<>> THEN <<>>
    ELSE (IF Len(Head(words).word) > line_width
          THEN break_apart(Head(words), line_width)
          ELSE <<Head(words)>>) \o break_words(Tail(words), line_width)

\* Penalties::new()
nline_penalty == 1000
overflow_penalty == 2500
short_last_line_fraction == 4
short_last_line_penalty == 25
hyphen_penalty == 25

\* The columns of the fragments k..j on one line
RECURSIVE LineWidth(_, _, _)
LineWidth(frags, k, j) ==
    IF k = j THEN Len(frags[j].word) + Len(frags[j].penalty)
    ELSE Len(frags[k].word) + Len(frags[k].whitespace)
            + LineWidth(frags, k + 1, j)

\* wrap_optimal_fit, the cost of ending a line with fragment j when the
\* line before it ended with fragment i (0: none), reached at the cost before
LineCost(frags, width, before, i, j) ==
    LET target     == IF width > 1 THEN width ELSE 1
        line_width == LineWidth(frags, i + 1, j)
        fitting    == IF line_width > target
                      THEN (line_width - target) * overflow_penalty
                      ELSE IF j < Len(frags)
                      THEN (target - line_width) * (target - line_width)
                      ELSE IF i + 1 = j
                              /\ line_width * short_last_line_fraction < target
                      THEN short_last_line_penalty
                      ELSE 0
        hyphen     == IF Len(frags[j].penalty) > 0 THEN hyphen_penalty ELSE 0
    IN  before + nline_penalty + fitting + hyphen

\* wrap_optimal_fit, the minima: element j + 1 holds, for the first j
\* fragments, the cheapest cost and the fragment the line before the last
\* ends with
RECURSIVE Minima(_, _, _)
Minima(frags, width, j) ==
    IF j = 0 THEN <<[prev |-> 0, cost |-> 0]>>
    ELSE LET earlier == Minima(frags, width, j - 1)
             cost    == [i \in 0..(j - 1) |->
                           LineCost(frags, width, earlier[i + 1].cost, i, j)]
             best    == CHOOSE i \in 0..(j - 1) :
                           \A k \in 0..(j - 1) :
                               \/ cost[i] < cost[k]
                               \/ cost[i] = cost[k] /\ i <= k
         IN  Append(earlier, [prev |-> best, cost |-> cost[best]])

\* The text of the fragments k..j, without the whitespace after the last
RECURSIVE LineText(_, _, _)
LineText(frags, k, j) ==
    IF k = j THEN frags[j].word \o frags[j].penalty
    ELSE frags[k].word \o frags[k].whitespace \o LineText(frags, k + 1, j)

\* wrap_optimal_fit, the lines read back from the minima
RECURSIVE LinesUpTo(_, _, _)
LinesUpTo(frags, minima, pos) ==
    IF pos = 0 THEN <<>>
    ELSE LET prev == minima[pos + 1].prev
         IN  Append(LinesUpTo(frags, minima, prev),
                    LineText(frags, prev + 1, pos))

\* wrap_single_line: a line shorter than the width is only trimmed
wrap_single_line(line, width) ==
    IF Len(line) < width THEN <<trim_end(line)>>
    ELSE LET frags == break_words(split_words(find_words(line)), width)
         IN  LinesUpTo(frags, Minima(frags, width, Len(frags)), Len(frags))

\* textwrap::wrap: the lines of the text, each wrapped
RECURSIVE wrap_lines(_, _)
wrap_lines(lines, width) ==
    IF lines = <<>> THEN <<>>
    ELSE wrap_single_line(Head(lines), width)
            \o wrap_lines(Tail(lines), width)

\* The lines joined by line feeds
RECURSIVE join_lines(_)
join_lines(lines) ==
    IF Len(lines) = 1 THEN lines[1]
    ELSE lines[1] \o <<10>> \o join_lines(Tail(lines))

fill(text, width) ==
    IF Len(text) < width /\ \A i \in 1..Len(text) : text[i] # 10
    THEN trim_end(text)
    ELSE join_lines(wrap_lines(split_lines(text), width))

\* The rows added in the order of the response
RowOrderForward(events) == events

\* The order the rows of an Events/Births/Deaths table are added in
RowOrder(events) == [i \in 1..Len(events) |-> events[Len(events) + 1 - i]]

EventRow(ev, width) == <<Decimal(ev.year), fill(ev.text, width - 15)>>

HolidayRow(holiday, width) == <<fill(holiday.text, width - 5)>>

\* The table show_on_this_day builds from the response
BuildTable(type, resp, cols) ==
    LET width == IF cols > 50 THEN cols ELSE 50
    IN  IF type = "Holidays"
        THEN [ header |-> <<"Holidays & Observances">>,
               rows   |-> IF resp.holidays = <<>>
                          THEN << <<"No holidays found for this day.">> >>
                          ELSE [i \in 1..Len(resp.holidays) |->
                                   HolidayRow(resp.holidays[i], width)] ]
        ELSE LET sel == CASE type = "Events" ->
                                 [h |-> <<"Year", "Event">>, ev |-> resp.events]
                          [] type = "Births" ->
                                 [h |-> <<"Born", "Person">>, ev |-> resp.births]
                          [] type = "Deaths" ->
                                 [h |-> <<"Died", "Person">>, ev |-> resp.deaths]
             IN  [ header |-> sel.h,
                   rows   |-> IF sel.ev = <<>>
                              THEN << <<"N/A",
                                 "No entries of this type found for this day.">> >>
                              ELSE LET ordered == RowOrder(sel.ev)
                                   IN  [i \in 1..Len(ordered) |->
                                           EventRow(ordered[i], width)] ]

MonthName(m) ==
    <<"January", "February", "March", "April", "May", "June", "July",
      "August", "September", "October", "November", "December">>[m]

\* format("%B %e") of the date in the reference year, trimmed
HeaderDate(m, d) ==
    <<MonthName(m), " ", IF d < 10 THEN <<" ", d>> ELSE Decimal(d)>>

\* main, History: show_on_this_day up to the point where fetch_wikipedia_data
\* awaits the answer of the network (or returns from the memo)
BeginHistory ==
    /\ pc = "history"
    /\ LET m   == ResolvedMonth(args, today)
           d   == ResolvedDay(args, today)
           key == CacheKey(args.language, EventTypeName(args.type), m, d)
       IN  /\ month' = m
           /\ day' = d
           /\ IF ~ValidDate(m, d)
              THEN /\ pc' = "failed"
                   /\ stderr' = InvalidDateMessage(m, d)
                   /\ UNCHANGED <<spinner, cache, request, net_log,
                                  fetch_calls, response>>
              ELSE /\ spinner' = SpinnerFor(args, m, d)
                   /\ fetch_calls' = fetch_calls + 1
                   /\ cache' = CacheAfterGet(cache, key, clock)
                   /\ IF CacheLive(cache, key, clock)
                      THEN /\ response' = cache[key].value
                           /\ pc' = "fetched"
                           /\ UNCHANGED <<request, net_log>>
                      ELSE /\ request' = [key |-> key, at |-> clock]
                           /\ net_log' = Append(net_log,
                                  RequestUrl(env_base, args.language,
                                             EventTypeName(args.type), m, d))
                           /\ pc' = "awaiting"
                           /\ UNCHANGED response
                   /\ UNCHANGED stderr
    /\ UNCHANGED <<args, today, env_base, term_cols, upstream, clock, stdout,
                   langVars, statVars, callVars>>

\* The first await of fetch_wikipedia_data ends: the request has failed or
\* its status is an error, and fetch_wikipedia_data returns the error, which
\* show_on_this_day passes on to main with `?`, dropping the spinner (a
\* ProgressBar that is dropped unfinished finishes as
\* ProgressFinish::AndClear); or the status is accepted and the body awaited
ReceiveStatus(answers) ==
    /\ pc = "awaiting"
    /\ \E answer \in answers :
         LET result == SendResult(answer)
         IN  /\ upstream' = answer
             /\ IF result.ok
                THEN /\ pc' = "reading"
                     /\ UNCHANGED <<cache, stderr, spinner>>
                ELSE /\ cache' = CacheAfterCall(cache, request.key, result,
                                                clock)
                     /\ stderr' = result.value
                     /\ pc' = "failed"
                     /\ spinner' = SpinnerCleared(spinner)
    /\ UNCHANGED <<args, today, env_base, term_cols, month, day,
                   clock, request, net_log, fetch_calls, response, stdout,
                   langVars, statVars, callVars>>

\* The second await ends: the body is decoded, the memo stores an Ok, and
\* fetch_wikipedia_data returns; show_on_this_day passes an error on to main
\* with `?`, dropping the spinner
FinishFetch ==
    /\ pc = "reading"
    /\ LET result == JsonResult(upstream)
       IN  /\ cache' = CacheAfterCall(cache, request.key, result, clock)
           /\ IF result.ok
              THEN /\ response' = result.value
                   /\ pc' = "fetched"
                   /\ UNCHANGED <<stderr, spinner>>
              ELSE /\ stderr' = result.value
                   /\ pc' = "failed"
                   /\ spinner' = SpinnerCleared(spinner)
                   /\ UNCHANGED response
    /\ UNCHANGED <<args, today, env_base, term_cols, upstream, month, day,
                   clock, request, net_log, fetch_calls, stdout,
                   langVars, statVars, callVars>>

\* The rest of show_on_this_day, and main's last line
RenderHistory ==
    /\ pc = "fetched"
    /\ spinner' = SpinnerCleared(spinner)
    /\ stdout' = stdout \o
          << [kind |-> "header", date |-> HeaderDate(month, day)],
             [kind |-> "table",
              table |-> BuildTable(args.type, response, term_cols)],
             [kind |-> "finished"] >>
    /\ pc' = "done"
    /\ UNCHANGED <<args, today, env_base, term_cols, upstream, month, day,
                   cache, clock, request, net_log, fetch_calls, response,
                   stderr, langVars, statVars, callVars>>

(* ---------------------------------------------------------------------- *)
(*          specifications of one `history` invocation of main            *)
(* ---------------------------------------------------------------------- *)

\* Bounds: the longest events/births/deaths and holidays sequences of a body
MaxItems == 2
MaxHolidays == 1

RECURSIVE SeqsUpTo(_, _)
SeqsUpTo(S, n) ==
    IF n = 0 THEN {<<>>}
    ELSE LET shorter == SeqsUpTo(S, n - 1)
         IN  shorter \cup {Append(q, x) : q \in shorter, x \in S}

\* "A"
ShortText == <<65>>

\* "self-governing twenty-first-centuries art"
HyphenatedText ==
    <<115, 101, 108, 102, 45, 103, 111, 118, 101, 114, 110, 105, 110,
      103, 32, 116, 119, 101, 110, 116, 121, 45, 102, 105, 114, 115,
      116, 45, 99, 101, 110, 116, 117, 114, 105, 101, 115, 32, 97, 114,
      116>>

\* Forty a, then " bbb cc ", then fifty d
LongWordText ==
    [i \in 1..40 |-> 97] \o <<32, 98, 98, 98, 32, 99, 99, 32>>
       \o [i \in 1..50 |-> 100]

Items == { [year |-> 1990, text |-> ShortText],
           [year |-> 2005, text |-> HyphenatedText] }

Holidays == { [text |-> LongWordText] }

Json(f) == [malformed |-> FALSE, json |-> f]

NoAnswer == [sent |-> FALSE, status |-> 0, body |-> Malformed]
Answer(status, body) == [sent |-> TRUE, status |-> status, body |-> body]

EmptyJson == Json(<<>>)

SampleJson ==
    Json([f \in {"events", "holidays"} |->
            IF f = "events"
            THEN << [year |-> 1990, text |-> ShortText],
                    [year |-> 2005, text |-> HyphenatedText] >>
            ELSE << [text |-> LongWordText] >>])

Statuses == {200, 300, 404, 503}

\* The answers tried where the date is what varies
HistoryAnswers ==
    {NoAnswer} \cup
    {Answer(st, b) : st \in Statuses, b \in {Malformed, EmptyJson, SampleJson}}

\* Every body with each field absent or a bounded sequence
JsonBodies ==
    LET ev == SeqsUpTo(Items, MaxItems)
        ho == SeqsUpTo(Holidays, MaxHolidays)
    IN  UNION { { Json(f) : f \in { g \in [D -> ev \cup ho] :
                                      \A k \in D : g[k] \in
                                         (IF k = "holidays" THEN ho ELSE ev) } }
                : D \in SUBSET Fields }

\* The answers tried where the body is what varies
RenderAnswers == {Answer(200, b) : b \in JsonBodies}

MonthOverrides == {NoOverride} \cup {Some(m) : m \in 1..12}
DayOverrides == {NoOverride} \cup {Some(d) : d \in 1..31}

Todays == { [year |-> 2023, month |-> 2, day |-> 28],
            [year |-> 2024, month |-> 12, day |-> 31] }

\* "EN" and "de" as --language; the value parser has folded them
Languages == { parse_lang_code(<<69, 78>>).value,
               parse_lang_code(<<100, 101>>).value }

RunIdle ==
    /\ upstream = None /\ month = None /\ day = None
    /\ spinner = SpinnerOff
    /\ cache = <<>> /\ clock = 0
    /\ request = None /\ net_log = <<>> /\ fetch_calls = 0
    /\ response = None /\ stdout = <<>> /\ stderr = None
    /\ last = None /\ ret = None
    /\ lang_input = None /\ lang_result = None
    /\ now = None /\ stats = None

\* After Cli::parse of a `history` command line
HistoryInit ==
    /\ args \in [type : EventTypes, language : {parse_lang_code(<<69, 78>>).value},
                 quiet : BOOLEAN, month : MonthOverrides, day : DayOverrides]
    /\ today \in Todays
    /\ env_base \in {None}
    /\ term_cols \in {80}
    /\ pc = "history"
    /\ RunIdle

HistoryNext ==
    \/ BeginHistory
    \/ ReceiveStatus(HistoryAnswers)
    \/ FinishFetch
    \/ RenderHistory

SpecHistory == HistoryInit /\ [][HistoryNext]_vars

RenderInit ==
    /\ args \in [type : EventTypes, language : {parse_lang_code(<<100, 101>>).value},
                 quiet : {TRUE}, month : {NoOverride}, day : {NoOverride}]
    /\ today \in { [year |-> 2024, month |-> 12, day |-> 31] }
    /\ env_base \in {"http://127.0.0.1:8080"}
    /\ term_cols \in {20, 120}
    /\ pc = "history"
    /\ RunIdle

RenderNext ==
    \/ BeginHistory
    \/ ReceiveStatus(RenderAnswers)
    \/ FinishFetch
    \/ RenderHistory

SpecRender == RenderInit /\ [][RenderNext]_vars

(* ---------------------------------------------------------------------- *)
(*     specification of repeated calls of fetch_wikipedia_data in one     *)
(*     process, with the clock advancing between them                     *)
(* ---------------------------------------------------------------------- *)

\* Bounds: the days the clock runs for, and the calls made
MaxDays == 2
MaxCalls == 3

\* The instants tried: around each multiple of the lifespan
TimePoints ==
    { t \in { k * cache_seconds + o : k \in 0..MaxDays, o \in {-1, 0, 1} } :
        t >= 0 }

CallKeys ==
    { CacheKey(parse_lang_code(<<69, 78>>).value, "events", 2, 29),
      CacheKey(parse_lang_code(<<100, 101>>).value, "events", 2, 29) }

CallAnswers ==
    { NoAnswer, Answer(404, Malformed), Answer(200, Malformed),
      Answer(200, EmptyJson), Answer(200, SampleJson) }

NoCall == [some |-> FALSE]

\* The stamp of the entry the memo holds for the key, if it holds one
StampsOf(c, key) == IF key \in DOMAIN c THEN {c[key].stamp} ELSE {}

CallRecord(at, result, networked) ==
    [some |-> TRUE, at |-> at, result |-> result, networked |-> networked]

CallsInit ==
    /\ cache = <<>>
    /\ clock = 0
    /\ pc = "idle"
    /\ request = None
    /\ net_log = <<>>
    /\ fetch_calls = 0
    /\ upstream = None
    /\ env_base = None
    /\ last = [k \in CallKeys |-> NoCall]
    /\ ret = [some |-> FALSE]
    /\ args = None /\ today = None /\ term_cols = None
    /\ month = None /\ day = None /\ spinner = SpinnerOff
    /\ response = None /\ stdout = <<>> /\ stderr = None
    /\ lang_input = None /\ lang_result = None
    /\ now = None /\ stats = None

\* Time passes between two calls
Tick ==
    /\ pc = "idle"
    /\ \E t \in TimePoints : t > clock /\ clock' = t
    /\ UNCHANGED <<args, today, env_base, term_cols, upstream, pc, month, day,
                   spinner, cache, request, net_log, fetch_calls, response,
                   stdout, stderr, langVars, statVars, callVars>>

\* A finished call of fetch_wikipedia_data, recorded with the call before it
\* for the same key and the stamps of the entry the memo held for the key
Returned(key, at, result, networked, found) ==
    /\ ret' = [some |-> TRUE, key |-> key, at |-> at, result |-> result,
               networked |-> networked, prev |-> last[key], found |-> found]
    /\ last' = [last EXCEPT ![key] = CallRecord(at, result, networked)]

\* fetch_wikipedia_data(key) is called: the memo answers, or the request is sent
CallFetch ==
    /\ pc = "idle"
    /\ fetch_calls < MaxCalls
    /\ fetch_calls' = fetch_calls + 1
    /\ \E key \in CallKeys :
         /\ cache' = CacheAfterGet(cache, key, clock)
         /\ IF CacheLive(cache, key, clock)
            THEN /\ Returned(key, clock,
                             [ok |-> TRUE, value |-> cache[key].value], FALSE,
                             StampsOf(cache, key))
                 /\ UNCHANGED <<pc, request, net_log>>
            ELSE /\ request' = [key |-> key, at |-> clock,
                                found |-> StampsOf(cache, key)]
                 /\ net_log' = Append(net_log,
                        RequestUrl(env_base, key[1], key[2], key[3], key[4]))
                 /\ pc' = "calling"
                 /\ UNCHANGED callVars
    /\ UNCHANGED <<args, today, env_base, term_cols, upstream, month, day,
                   spinner, clock, response, stdout, stderr,
                   langVars, statVars>>

\* The first await ends within the timeout of the client: the call returns
\* the error of the request or of its status, or the body is awaited
CallReceiveStatus ==
    /\ pc = "calling"
    /\ \E answer \in CallAnswers, t \in TimePoints :
         /\ t >= clock
         /\ t - request.at <= client_timeout
         /\ clock' = t
         /\ upstream' = answer
         /\ LET result == SendResult(answer)
            IN  IF result.ok
                THEN /\ pc' = "reading"
                     /\ UNCHANGED <<cache, callVars>>
                ELSE /\ cache' = CacheAfterCall(cache, request.key, result, t)
                     /\ Returned(request.key, request.at, result, TRUE,
                                 request.found)
                     /\ pc' = "idle"
    /\ UNCHANGED <<args, today, env_base, term_cols, month, day, spinner,
                   request, net_log, fetch_calls, response, stdout, stderr,
                   langVars, statVars>>

\* The second await ends within the timeout: the body is decoded, the memo
\* stores an Ok, and the call returns
ReturnFetch ==
    /\ pc = "reading"
    /\ \E t \in TimePoints :
         /\ t >= clock
         /\ t - request.at <= client_timeout
         /\ clock' = t
         /\ LET result == JsonResult(upstream)
            IN  /\ cache' = CacheAfterCall(cache, request.key, result, t)
                /\ Returned(request.key, request.at, result, TRUE,
                            request.found)
    /\ pc' = "idle"
    /\ UNCHANGED <<args, today, env_base, term_cols, upstream, month, day,
                   spinner, request, net_log, fetch_calls, response, stdout,
                   stderr, langVars, statVars>>

CallsNext == Tick \/ CallFetch \/ CallReceiveStatus \/ ReturnFetch

SpecCalls == CallsInit /\ [][CallsNext]_vars

(* ---------------------------------------------------------------------- *)
(*        specification of parse_lang_code over bounded arguments         *)
(* ---------------------------------------------------------------------- *)

HistIdle ==
    /\ today = None /\ env_base = None /\ term_cols = None
    /\ upstream = None /\ month = None /\ day = None
    /\ spinner = None /\ cache = <<>> /\ clock = 0 /\ request = None
    /\ net_log = <<>> /\ fetch_calls = 0
    /\ response = None /\ stdout = <<>> /\ stderr = None
    /\ last = None /\ ret = None

LangInit ==
    /\ lang_input \in StringsUpTo(LangAlphabet, MaxLangLen)
    /\ lang_result = None
    /\ pc = "parse"
    /\ args = None
    /\ now = None /\ stats = None
    /\ HistIdle

\* clap hands the --language argument to the value parser
ParseLang ==
    /\ pc = "parse"
    /\ lang_result' = parse_lang_code(lang_input)
    /\ pc' = "parsed"
    /\ UNCHANGED <<lang_input, statVars, args, today, env_base, term_cols,
                   upstream, month, day, spinner, cache, clock, request,
                   net_log, fetch_calls, response, stdout, stderr, callVars>>

LangNext == ParseLang

SpecLang == LangInit /\ [][LangNext]_vars

(* ---------------------------------------------------------------------- *)
(*          show_current_time, ascii_bar and show_time_statistics         *)
(* ---------------------------------------------------------------------- *)

\* What a println! writes is kept as the sequence of its pieces: literal
\* text, the digits of a number, a run of one character, a styled piece; "\n"
\* is a line break inside it.

\* owo_colors: the piece between the escape sequences of the style
Styled(style, piece) == [style |-> style, piece |-> piece]

\* str::repeat of the one-character string with code point c: a run of n
repeat(c, n) == [char |-> c, times |-> n]

\* chrono %A, for Monday = 1 .. Sunday = 7
WeekdayName(w) ==
    <<"Monday", "Tuesday", "Wednesday", "Thursday", "Friday", "Saturday",
      "Sunday">>[w]

\* chrono "%A, %B %d"
LongDate(t) ==
    <<WeekdayName(Weekday(t.year, ordinal(t))), ", ", MonthName(t.month), " ",
      Pad2(t.day)>>

\* chrono %r, which is "%I:%M:%S %p"
Clock12(t) ==
    LET h == IF t.hour % 12 = 0 THEN 12 ELSE t.hour % 12
    IN  <<Pad2(h), ":", Pad2(t.minute), ":", Pad2(t.second), " ",
          IF t.hour < 12 THEN "AM" ELSE "PM">>

\* The println! of show_current_time
show_current_time(t) ==
    << <<Styled("bold", "The current time is:"), "\n">> \o LongDate(t)
         \o <<", ", Decimal(t.year), " ">> \o Clock12(t) >>

\* The bar of ascii_bar: filled is (percent / 100.0 * width).round(), halves
\* rounded away from zero; 9608 is the full block, 9617 the light shade
ascii_bar(percent, width) ==
    LET filled == (2 * percent.num * width + 100 * percent.den)
                     \div (200 * percent.den)
        empty  == IF width > filled THEN width - filled ELSE 0
    IN  <<Styled("green", repeat(9608, filled)),
          Styled("dimmed", repeat(9617, empty))>>

\* The seconds of the day at which seconds / 86400 * 100 is halfway between
\* two tenths and the f64 the code computes is not: it is above the half
F64AboveHalf == {1512, 11880, 23544, 23976, 52488, 52920, 53352, 53784}

\* ... and it is below the half
F64BelowHalf ==
    {6264, 12312, 24408, 24840, 43416, 43848, 44280, 44712, 54216, 54648,
     55080}

\* {:.1} rounds the f64 to tenths, an exact half to the even tenth
Tenths(p) ==
    LET scaled  == p.num * 10
        floor   == scaled \div p.den
        twice   == 2 * (scaled % p.den)
        ofDay   == p.den = seconds_in_day
        seconds == p.num \div 100
        up      == IF twice # p.den THEN twice > p.den
                   ELSE IF ofDay /\ seconds \in F64AboveHalf THEN TRUE
                   ELSE IF ofDay /\ seconds \in F64BelowHalf THEN FALSE
                   ELSE floor % 2 = 1
    IN  IF up THEN floor + 1 ELSE floor

\* {:>5.1}: one decimal, right-aligned in five columns
FixedOne(p) ==
    LET t     == Tenths(p)
        whole == Decimal(t \div 10)
        pad   == IF Len(whole) + 2 < 5 THEN 5 - (Len(whole) + 2) ELSE 0
    IN  <<repeat(32, pad), whole, ".", <<t % 10>> >>

\* The five decimal digits of n < 100000
Pad5(n) ==
    <<n \div 10000, (n \div 1000) % 10, (n \div 100) % 10, (n \div 10) % 10,
      n % 10>>

\* {} of the i64 high * 100000 + low
DecimalI64(v) ==
    IF v.high > 0 THEN <<Decimal(v.high) \o Pad5(v.low)>>
    ELSE IF v.high = 0 THEN <<Decimal(v.low)>>
    ELSE LET h == IF v.low = 0 THEN -v.high ELSE -v.high - 1
             l == IF v.low = 0 THEN 0 ELSE 100000 - v.low
         IN  <<"-", IF h = 0 THEN Decimal(l) ELSE Decimal(h) \o Pad5(l)>>

bar_width == 28

\* The seven println! of show_time_statistics; 9472 is the horizontal rule
show_time_statistics(t) ==
    LET st == compute_time_statistics(t)
    IN  << <<"\n", Styled("bold", "Time statistics"), "\n", repeat(9472, 35)>>,
           <<"Date            : ">> \o LongDate(t) \o <<" ", Decimal(t.year)>>,
           <<"Local time      : ">> \o Clock12(t),
           <<"Unix timestamp  : ">> \o DecimalI64(st.unix_timestamp),
           <<"\nDay   (", Decimal(st.day_of_year), "/",
             Decimal(st.total_days_in_year), ") : ">>
              \o ascii_bar(st.day_progress, bar_width) \o <<" ">>
              \o FixedOne(st.day_progress) \o <<" %">>,
           <<"Year  (week ", Decimal(st.week_of_year), ") : ">>
              \o ascii_bar(st.year_progress, bar_width) \o <<" ">>
              \o FixedOne(st.year_progress) \o <<" %">>,
           <<"\nLeap year       : ",
             IF st.is_leap THEN Styled("bright_green", "Yes")
             ELSE Styled("bright_red", "No")>> >>

(* ---------------------------------------------------------------------- *)
(*   specification of main without a subcommand, over bounded instants    *)
(* ---------------------------------------------------------------------- *)

\* Local::now() reads the system clock as a time since the Unix epoch: it
\* returns no instant before 1970
StatYears == 1970..(2000 + YearSpan)

\* Every date of every year tried, at the first and the last second of the
\* day, read in UTC
EdgeInstants ==
    { [year |-> y, month |-> m, day |-> d,
       hour |-> t[1], minute |-> t[2], second |-> t[3], offset |-> 0] :
        y \in StatYears, m \in 1..12, d \in 1..31,
        t \in {<<0, 0, 0>>, <<23, 59, 59>>} }

\* Every second of the last day of a leap year, read one hour east of UTC
DayInstants ==
    { [year |-> 2024, month |-> 12, day |-> 31,
       hour |-> h, minute |-> mi, second |-> s, offset |-> 3600] :
        h \in 0..23, mi \in 0..59, s \in 0..59 }

\* After Cli::parse of a command line without a subcommand, and Local::now()
StatsInit ==
    /\ args \in [statistics : BOOLEAN]
    /\ now \in {t \in EdgeInstants : from_ymd_opt(t.year, t.month, t.day)}
                \cup DayInstants
    /\ stats = None
    /\ pc = "clock"
    /\ lang_input = None /\ lang_result = None
    /\ HistIdle

\* main with --statistics: show_time_statistics computes the statistics of
\* the instant and prints them
ShowTimeStatistics ==
    /\ pc = "clock"
    /\ args.statistics
    /\ stats' = compute_time_statistics(now)
    /\ stdout' = stdout \o show_time_statistics(now)
    /\ pc' = "shown"
    /\ UNCHANGED <<now, langVars, args, today, env_base, term_cols,
                   upstream, month, day, spinner, cache, clock, request,
                   net_log, fetch_calls, response, stderr, callVars>>

\* main without --statistics: show_current_time prints the instant
ShowCurrentTime ==
    /\ pc = "clock"
    /\ ~args.statistics
    /\ stdout' = stdout \o show_current_time(now)
    /\ pc' = "told"
    /\ UNCHANGED <<now, stats, langVars, args, today, env_base, term_cols,
                   upstream, month, day, spinner, cache, clock, request,
                   net_log, fetch_calls, response, stderr, callVars>>

StatsNext == ShowTimeStatistics \/ ShowCurrentTime

SpecStats == StatsInit /\ [][StatsNext]_vars


(* ---------------------------------------------------------------------- *)
(*                 properties of parse_lang_code (SpecLang)               *)
(* ---------------------------------------------------------------------- *)

AsciiLetters == (65..90) \cup (97..122)

TwoAsciiLetters(s) == Len(s) = 2 /\ \A i \in 1..Len(s) : s[i] \in AsciiLetters

\* C5: parse_lang_code succeeds exactly on the strings of two characters that
\* are both ASCII letters, and then returns the input folded to lowercase;
\* on every other input it returns an error whose message names the input.
LangCodeContract ==
    pc = "parsed" =>
        /\ lang_result.ok <=> TwoAsciiLetters(lang_input)
        /\ lang_result.ok =>
              /\ Len(lang_result.value) = 2
              /\ \A i \in 1..2 :
                    /\ lang_result.value[i] \in 97..122
                    /\ lang_result.value[i] \in {lang_input[i], lang_input[i] + 32}
        /\ ~lang_result.ok =>
              /\ Len(lang_result.value) = 3
              /\ lang_result.value[2] = lang_input

\* "EN" was parsed to "en"
LangCodeFolded ==
    /\ pc = "parsed"
    /\ lang_input = <<69, 78>>
    /\ lang_result.ok
    /\ lang_result.value = <<101, 110>>

(* ---------------------------------------------------------------------- *)
(*            properties of compute_time_statistics (SpecStats)           *)
(* ---------------------------------------------------------------------- *)

Below100(p) == p.num < 100 * p.den
Exactly100(p) == p.num = 100 * p.den
Midnight(t) == t.hour = 0 /\ t.minute = 0 /\ t.second = 0
LastDayOfYear(t) == t.month = 12 /\ t.day = 31

\* C6, as claimed: day_progress and year_progress are both in [0,100) at
\* every instant, December 31 included, and day_progress is 0 at midnight.
ProgressBelowHundred ==
    pc = "shown" =>
        /\ stats.day_progress.num >= 0 /\ Below100(stats.day_progress)
        /\ stats.year_progress.num >= 0 /\ Below100(stats.year_progress)
        /\ Midnight(now) => stats.day_progress.num = 0

\* C6, amended: day_progress is in [0,100) and is 0 at midnight;
\* year_progress is above 0 and at most 100, and is 100 exactly on
\* December 31.
ProgressRange ==
    pc = "shown" =>
        /\ stats.day_progress.num >= 0 /\ Below100(stats.day_progress)
        /\ Midnight(now) => stats.day_progress.num = 0
        /\ stats.year_progress.num > 0
        /\ stats.year_progress.num <= 100 * stats.year_progress.den
        /\ Exactly100(stats.year_progress) <=> LastDayOfYear(now)

\* The last second of a December 31 has been measured
LastSecondOfYear ==
    /\ pc = "shown"
    /\ LastDayOfYear(now)
    /\ now.hour = 23 /\ now.minute = 59 /\ now.second = 59
    /\ Exactly100(stats.year_progress)
    /\ Below100(stats.day_progress)

GregorianLeap(y) == (y % 4 = 0 /\ y % 100 # 0) \/ y % 400 = 0

\* C7: is_leap follows the Gregorian rule, total_days_in_year is 366 in a
\* leap year and 365 otherwise, and day_of_year never exceeds it (March 1 is
\* day 61 of a leap year).
LeapYearRule ==
    pc = "shown" =>
        /\ stats.is_leap <=> GregorianLeap(now.year)
        /\ stats.total_days_in_year = IF stats.is_leap THEN 366 ELSE 365
        /\ stats.day_of_year >= 1
        /\ stats.day_of_year <= stats.total_days_in_year
        /\ (stats.is_leap /\ now.month = 3 /\ now.day = 1)
              => stats.day_of_year = 61

\* March 1 of the century year 2000 was measured as day 61 of a leap year
LeapCenturyMeasured ==
    /\ pc = "shown"
    /\ now.year = 2000 /\ now.month = 3 /\ now.day = 1
    /\ stats.is_leap
    /\ stats.total_days_in_year = 366
    /\ stats.day_of_year = 61

(* ---------------------------------------------------------------------- *)
(*            properties of a `history` invocation (SpecHistory)          *)
(* ---------------------------------------------------------------------- *)

\* The days of each month of a leap year
LeapYearDays == <<31, 29, 31, 30, 31, 30, 31, 31, 30, 31, 30, 31>>

TwoDigits(n) == <<n \div 10, n % 10>>

\* show_on_this_day has resolved the date
Resolved == pc \in {"awaiting", "reading", "fetched", "done", "failed"}

\* The invocation ended before fetch_wikipedia_data was called
Rejected == pc = "failed" /\ fetch_calls = 0

\* C3: an invocation whose resolved (month, day) is not a valid date ends in
\* the error "'MM-DD' is not a valid calendar date", both numbers padded to
\* two digits, and looks nothing up in the memo, requests nothing and prints
\* neither the date header nor the table.
InvalidDateAborts ==
    (Resolved /\ day > LeapYearDays[month]) =>
        /\ pc = "failed"
        /\ stderr = <<"'", TwoDigits(month), "-", TwoDigits(day),
                      "' is not a valid calendar date">>
        /\ fetch_calls = 0
        /\ DOMAIN cache = {}
        /\ net_log = <<>>
        /\ stdout = <<>>
        /\ spinner.state = "off"

\* `history -m 4 -d 31` has failed with '04-31'
AprilThirtyFirstRejected ==
    /\ pc = "failed"
    /\ args.month.some /\ args.month.v = 4
    /\ args.day.some /\ args.day.v = 31
    /\ stderr = <<"'", <<0, 4>>, "-", <<3, 1>>,
                  "' is not a valid calendar date">>
    /\ net_log = <<>>

\* C4: the resolved pair is accepted if and only if the day is at most the
\* number of days of the month in a leap year, whatever the current year:
\* (2, 29) is accepted, (2, 30) and (4, 31) are rejected.
LeapYearValidation ==
    Resolved =>
        /\ ~Rejected <=> day <= LeapYearDays[month]
        /\ (month = 2 /\ day = 29) => ~Rejected
        /\ (month = 2 /\ day = 30) => Rejected
        /\ (month = 4 /\ day = 31) => Rejected

\* February 29 was accepted in 2023, which is no leap year
FebruaryTwentyNinthAccepted ==
    /\ pc = "awaiting"
    /\ today.year = 2023
    /\ month = 2 /\ day = 29
    /\ Len(net_log) = 1

\* C9: the resolved month is the month override if given and today's month
\* otherwise, the resolved day is the day override if given and today's day
\* otherwise, and the resolved pair is the one validated, used as the key of
\* the memo and put in the request.
IndependentOverrides ==
    Resolved =>
        /\ month = IF args.month.some THEN args.month.v ELSE today.month
        /\ day = IF args.day.some THEN args.day.v ELSE today.day
        /\ Rejected <=> day > LeapYearDays[month]
        /\ ~Rejected =>
              /\ request.key[3] = month /\ request.key[4] = day
              /\ Len(net_log) = 1
              /\ net_log[1][5] = Decimal(month)
              /\ net_log[1][7] = Decimal(day)

\* Only the day was overridden, and the request carries today's month with it
DayAloneOverridden ==
    /\ pc = "awaiting"
    /\ ~args.month.some
    /\ args.day.some /\ args.day.v = 9
    /\ today.month = 12 /\ today.day = 31
    /\ request.key[3] = 12 /\ request.key[4] = 9
    /\ net_log[1][5] = <<1, 2>> /\ net_log[1][7] = <<9>>

\* The request failed: no answer, a status outside 2xx, or a malformed body
RequestFailed(answer) ==
    \/ ~answer.sent
    \/ answer.status \notin 200..299
    \/ answer.body.malformed

\* fetch_wikipedia_data has returned from the network
Answered == fetch_calls = 1 /\ pc \in {"fetched", "done", "failed"}

\* C10: an invocation sends at most one request, and when the request fails
\* (transport failure, non-2xx status or malformed body) it ends in an error
\* without a second request and without printing the date header, a table
\* row or the "Finished in" line.
SingleRequestNoPartialOutput ==
    /\ Len(net_log) <= 1
    /\ (Answered /\ RequestFailed(upstream)) =>
          /\ pc = "failed"
          /\ Len(net_log) = 1
          /\ stdout = <<>>

(* ---------------------------------------------------------------------- *)
(*                 properties of the table (SpecRender)                   *)
(* ---------------------------------------------------------------------- *)

\* The sequence of the response the category selects
Selected ==
    CASE args.type = "Events" -> response.events
      [] args.type = "Births" -> response.births
      [] args.type = "Deaths" -> response.deaths

PrintedRows == stdout[2].table.rows

RECURSIVE DigitsValue(_)
DigitsValue(ds) ==
    IF ds = <<>> THEN 0 ELSE 10 * DigitsValue(SubSeq(ds, 1, Len(ds) - 1)) + ds[Len(ds)]

Ascending(events) ==
    \A i \in 1..(Len(events) - 1) : events[i].year <= events[i + 1].year

\* The text without its spaces and line feeds
Unwrapped(text) == SelectSeq(text, LAMBDA c : c \notin {10, 32})

\* C8: for Events, Births and Deaths the table has one row per item of the
\* selected sequence, in the reverse of the order of the response, each row
\* with the year of its item and the text of its item wrapped, so that a
\* response in ascending order of year (the order the API answers in) is
\* displayed in descending order; an empty sequence gives one placeholder row.
RowsReversed ==
    (pc = "done" /\ args.type # "Holidays") =>
        LET n == Len(Selected)
        IN  IF n = 0
            THEN PrintedRows =
                    << <<"N/A", "No entries of this type found for this day.">> >>
            ELSE /\ Len(PrintedRows) = n
                 /\ \A i \in 1..n :
                       /\ DigitsValue(PrintedRows[i][1]) = Selected[n + 1 - i].year
                       /\ Unwrapped(PrintedRows[i][2])
                             = Unwrapped(Selected[n + 1 - i].text)
                 /\ Ascending(Selected) =>
                       \A i \in 1..(n - 1) :
                           DigitsValue(PrintedRows[i][1])
                              >= DigitsValue(PrintedRows[i + 1][1])

\* "self-governing twenty-first-", a line feed, "centuries art"
HyphenatedWrapped ==
    <<115, 101, 108, 102, 45, 103, 111, 118, 101, 114, 110, 105, 110,
      103, 32, 116, 119, 101, 110, 116, 121, 45, 102, 105, 114, 115,
      116, 45, 10, 99, 101, 110, 116, 117, 114, 105, 101, 115, 32, 97,
      114, 116>>

\* On a narrow terminal the events (1990, short), (2005, hyphenated) were
\* printed as 2005 with its text on two lines, then 1990
NewestEventFirst ==
    /\ pc = "done"
    /\ args.type = "Events"
    /\ term_cols = 20
    /\ response.events = << [year |-> 1990, text |-> ShortText],
                            [year |-> 2005, text |-> HyphenatedText] >>
    /\ PrintedRows = << << <<2, 0, 0, 5>>, HyphenatedWrapped >>,
                        << <<1, 9, 9, 0>>, ShortText >> >>

(* ---------------------------------------------------------------------- *)
(*        properties of repeated calls of the fetch (SpecCalls)           *)
(* ---------------------------------------------------------------------- *)

\* The latest call came less than a lifespan after the call before it for
\* the same key
WithinLifespan == ret.prev.some /\ ret.at - ret.prev.at < cache_seconds

\* C1: once a call for a key has ended in an error, every later call for the
\* key within the lifespan returns that error without a request.
NegativeCaching ==
    (ret.some /\ WithinLifespan /\ ~ret.prev.result.ok) =>
        /\ ~ret.networked
        /\ ~ret.result.ok
        /\ ret.result.value = ret.prev.result.value

\* C2: of two calls for one key less than a lifespan apart only the first
\* sends a request and the second returns what the first stored; a call made
\* once the entry's lifespan is over sends a request; and no call is answered
\* from the entry of another key.
CacheHitAndExpiry ==
    ret.some =>
        /\ (WithinLifespan /\ ret.prev.networked) =>
              /\ ~ret.networked
              /\ ret.result = ret.prev.result
        /\ (\E stamp \in ret.found : ret.at - stamp >= cache_seconds) =>
              ret.networked
        /\ ~ret.networked =>
              /\ ret.prev.some
              /\ ret.result = ret.prev.result

=============================================================================
